---- MODULE Spec2Model ----
(***************************************************************************)
(* Expression trees (src/expressions/expressionscore.py): the node         *)
(* classes, the post-order traversal postvisitor and the symbolic          *)
(* derivative differentiate.                                               *)
(*                                                                         *)
(* Objects live in a heap: heap[i] is the i-th object created, and the     *)
(* index i is the object's identity (Python's id / default __hash__ and    *)
(* __eq__, which Expression does not override).  Nodes are never written   *)
(* after construction, so the heap only grows.                             *)
(***************************************************************************)
EXTENDS Integers, Sequences, FiniteSets, TLC

VARIABLES
    heap,     \* the objects created so far, in creation order
    pc,       \* "build" | "called" (differentiate returned or raised)
              \* | "loop" (inside postvisitor's while) | "done" (it returned)
    exc,      \* the exception the last call raised, or "none"
    expr,     \* the expr argument of the running / last call
    var,      \* the var argument of differentiate
    result,   \* what differentiate returned (None when it raised)
    order,    \* how many times differentiate was applied in a row
    orig,     \* the expr of the first differentiate call of the row
    base,     \* Len(heap) when the last differentiate call started
    stack,    \* postvisitor's local list  stack
    marks,    \* history: marks[i] says stack[i] was put there by stack.append(e)
    visited,  \* postvisitor's local dict  visited  (node -> visitor result)
    calls,    \* history: the nodes the visitor was invoked on, in order
    ret       \* what postvisitor returned

vars == <<heap, pc, exc, expr, var, result, order, orig, base,
          stack, marks, visited, calls, ret>>

----------------------------------------------------------------------------
(* Bounds of the model *)

\* nodes a client builds before calling differentiate
MaxNodes == 3
\* nodes a client builds before calling postvisitor
MaxNodesPV == 4
\* nodes a client builds when operators get any number of operands
MaxNodesCtor == 2
\* longest operand tuple handed to an operator constructor
MaxOperands == 3
\* how many times in a row differentiate is applied to its own result
MaxOrder == 2

----------------------------------------------------------------------------
(* Values handed to the Terminal constructors.  A raw value carries its    *)
(* Python type: numeric (an int) or text (a str).                          *)

RawInt(n) == [isnum |-> TRUE, num |-> n, str |-> ""]
RawStr(s) == [isnum |-> FALSE, num |-> 0, str |-> s]

Names == {"x", "y"}
RawValues == {RawInt(2), RawInt(3), RawStr("x"), RawStr("y")}

None == 0
NoExc == "none"

OperatorKinds == {"Add", "Sub", "Mul", "Div", "Pow"}

----------------------------------------------------------------------------
(* The node classes.  A node's value attribute is held in  value  when it  *)
(* is a Number's and in  name  when it is a Symbol's.                      *)

\* Expression.__init__(self, *operands) of an Operator subclass: any tuple
Operator(kind, operands) ==
    [kind |-> kind, value |-> 0, name |-> "", operands |-> operands]

\* Terminal.__init__ via Number.__init__, once the isinstance check passed
Number(v) == [kind |-> "Number", value |-> v, name |-> "", operands |-> <<>>]

\* Terminal.__init__ via Symbol.__init__, once the isinstance check passed
Symbol(s) == [kind |-> "Symbol", value |-> 0, name |-> s, operands |-> <<>>]

\* isinstance(value, numbers.Number)
IsNumeric(v) == v.isnum

\* isinstance(value, str)
IsStr(v) == ~v.isnum

----------------------------------------------------------------------------
(* Outcome of a call that may allocate: the heap after it, the object it   *)
(* returned and the exception it raised.                                   *)

Returned(h, r) == [heap |-> h, res |-> r, exc |-> NoExc]
Raised(h, x) == [heap |-> h, res |-> None, exc |-> x]

\* a constructor call that succeeds: the new object is the last of the heap
New(h, node) == Returned(Append(h, node), Len(h) + 1)

----------------------------------------------------------------------------
(* differentiate: functools.singledispatch on type(expr)                   *)

RECURSIVE differentiate(_, _, _)

\* the undecorated base function: no rule registered for this class
DiffDefault(h, e, v) == Raised(h, "NotImplementedError")

DiffNumber(h, e, v) == New(h, Number(0))

DiffSymbol(h, e, v) ==
    IF h[e].name = v THEN New(h, Number(1)) ELSE New(h, Number(0))

\* [differentiate(op, var=var) for op in ops], left to right
RECURSIVE DiffEach(_, _, _, _)
DiffEach(h, ops, v, acc) ==
    IF ops = <<>> THEN [heap |-> h, res |-> acc, exc |-> NoExc]
    ELSE LET d == differentiate(h, Head(ops), v)
         IN  IF d.exc # NoExc
             THEN [heap |-> d.heap, res |-> <<>>, exc |-> d.exc]
             ELSE DiffEach(d.heap, Tail(ops), v, Append(acc, d.res))

\* in-place variant: rewrites expr's operands and returns expr itself
DiffAddInPlace(h, e, v) ==
    LET ds == DiffEach(h, h[e].operands, v, <<>>)
    IN  IF ds.exc # NoExc THEN Raised(ds.heap, ds.exc)
        ELSE Returned([ds.heap EXCEPT ![e].operands = ds.res], e)

DiffAdd(h, e, v) ==
    LET ds == DiffEach(h, h[e].operands, v, <<>>)
    IN  IF ds.exc # NoExc THEN Raised(ds.heap, ds.exc)
        ELSE New(ds.heap, Operator("Add", ds.res))

\* variant with the product rule's cofactors exchanged: f'*f + g'*g
DiffMulSwapped(h, e, v) ==
    IF Len(h[e].operands) # 2 THEN Raised(h, "ValueError")
    ELSE
    LET f == h[e].operands[1]
        g == h[e].operands[2]
        df == differentiate(h, f, v)
    IN  IF df.exc # NoExc THEN df
        ELSE
        LET m1 == New(df.heap, Operator("Mul", <<df.res, f>>))
            dg == differentiate(m1.heap, g, v)
        IN  IF dg.exc # NoExc THEN dg
            ELSE
            LET m2 == New(dg.heap, Operator("Mul", <<dg.res, g>>))
            IN  New(m2.heap, Operator("Add", <<m1.res, m2.res>>))

DiffMul(h, e, v) ==
    \* f, g = expr.operands
    IF Len(h[e].operands) # 2 THEN Raised(h, "ValueError")
    ELSE
    LET f == h[e].operands[1]
        g == h[e].operands[2]
        df == differentiate(h, f, v)
    IN  IF df.exc # NoExc THEN df
        ELSE
        LET m1 == New(df.heap, Operator("Mul", <<df.res, g>>))
            dg == differentiate(m1.heap, g, v)
        IN  IF dg.exc # NoExc THEN dg
            ELSE
            LET m2 == New(dg.heap, Operator("Mul", <<dg.res, f>>))
            IN  New(m2.heap, Operator("Add", <<m1.res, m2.res>>))

DiffDiv(h, e, v) ==
    \* f, g = expr.operands
    IF Len(h[e].operands) # 2 THEN Raised(h, "ValueError")
    ELSE
    LET f == h[e].operands[1]
        g == h[e].operands[2]
        df == differentiate(h, f, v)
    IN  IF df.exc # NoExc THEN df
        ELSE
        LET m1 == New(df.heap, Operator("Mul", <<df.res, g>>))
            dg == differentiate(m1.heap, g, v)
        IN  IF dg.exc # NoExc THEN dg
            ELSE
            LET m2 == New(dg.heap, Operator("Mul", <<dg.res, f>>))
                s  == New(m2.heap, Operator("Sub", <<m1.res, m2.res>>))
                two == New(s.heap, Number(2))
                p  == New(two.heap, Operator("Pow", <<g, two.res>>))
            IN  New(p.heap, Operator("Div", <<s.res, p.res>>))

\* variant that folds the decremented exponent into one literal
DiffPowFolded(h, e, v) ==
    IF Len(h[e].operands) # 2 THEN Raised(h, "ValueError")
    ELSE
    LET b == h[e].operands[1]
        exponent == h[e].operands[2]
    IN  IF h[exponent].kind = "Number"
        THEN
        LET n1 == New(h, Number(h[exponent].value - 1))
            p  == New(n1.heap, Operator("Pow", <<b, n1.res>>))
            m  == New(p.heap, Operator("Mul", <<exponent, p.res>>))
            db == differentiate(m.heap, b, v)
        IN  IF db.exc # NoExc THEN db
            ELSE New(db.heap, Operator("Mul", <<m.res, db.res>>))
        ELSE Raised(h, "NotImplementedError")

\* variant without the isinstance(exponent, Number) test
DiffPowUnchecked(h, e, v) ==
    IF Len(h[e].operands) # 2 THEN Raised(h, "ValueError")
    ELSE
    LET b == h[e].operands[1]
        exponent == h[e].operands[2]
        one == New(h, Number(1))
        s  == New(one.heap, Operator("Sub", <<exponent, one.res>>))
        p  == New(s.heap, Operator("Pow", <<b, s.res>>))
        m  == New(p.heap, Operator("Mul", <<exponent, p.res>>))
        db == differentiate(m.heap, b, v)
    IN  IF db.exc # NoExc THEN db
        ELSE New(db.heap, Operator("Mul", <<m.res, db.res>>))

DiffPow(h, e, v) ==
    \* base, exponent = expr.operands
    IF Len(h[e].operands) # 2 THEN Raised(h, "ValueError")
    ELSE
    LET b == h[e].operands[1]
        exponent == h[e].operands[2]
    IN  IF h[exponent].kind = "Number"
        THEN
        \* Number(1), Sub(exponent, .), Pow(base, .), Mul(exponent, .) are
        \* built before differentiate(base) is called
        LET one == New(h, Number(1))
            s  == New(one.heap, Operator("Sub", <<exponent, one.res>>))
            p  == New(s.heap, Operator("Pow", <<b, s.res>>))
            m  == New(p.heap, Operator("Mul", <<exponent, p.res>>))
            db == differentiate(m.heap, b, v)
        IN  IF db.exc # NoExc THEN db
            ELSE New(db.heap, Operator("Mul", <<m.res, db.res>>))
        ELSE Raised(h, "NotImplementedError")

differentiate(h, e, v) ==
    CASE h[e].kind = "Number" -> DiffNumber(h, e, v)
      [] h[e].kind = "Symbol" -> DiffSymbol(h, e, v)
      [] h[e].kind = "Add" -> DiffAdd(h, e, v)
      [] h[e].kind = "Mul" -> DiffMul(h, e, v)
      [] h[e].kind = "Div" -> DiffDiv(h, e, v)
      [] h[e].kind = "Pow" -> DiffPow(h, e, v)
      [] OTHER -> DiffDefault(h, e, v)

----------------------------------------------------------------------------
(* postvisitor's pieces                                                    *)

\* the visitor: any deterministic function of the node and of its operands'
\* results, in order.  This one writes them out in prefix form, so that two
\* different argument lists never give the same result.
RECURSIVE Concat(_)
Concat(seqs) == IF seqs = <<>> THEN <<>> ELSE Head(seqs) \o Concat(Tail(seqs))

Visitor(e, results) == <<e>> \o Concat(results)

\* variant that keeps only the first unvisited operand
UnvisitedFirstOnly(h, vis, e) ==
    LET unv == SelectSeq(h[e].operands, LAMBDA o : o \notin DOMAIN vis)
    IN  IF unv = <<>> THEN <<>> ELSE <<Head(unv)>>

\* [o for o in e.operands if o not in visited]
UnvisitedChildren(h, vis, e) ==
    SelectSeq(h[e].operands, LAMBDA o : o \notin DOMAIN vis)

\* variant that passes the operand results right to left
OperandResultsReversed(h, vis, e) ==
    LET ops == h[e].operands
    IN  [i \in 1..Len(ops) |-> vis[ops[Len(ops) + 1 - i]]]

\* *(visited[o] for o in e.operands)
OperandResults(h, vis, e) ==
    LET ops == h[e].operands
    IN  [i \in 1..Len(ops) |-> vis[ops[i]]]

\* variant that forgets stack.extend(unvisited_children)
PushBackOnly(stk, e, unv) == Append(stk, e)

\* stack.append(e); stack.extend(unvisited_children)
PushBack(stk, e, unv) == Append(stk, e) \o unv

\* visited[e] = r
Store(vis, e, r) ==
    [n \in DOMAIN vis \cup {e} |-> IF n = e THEN r ELSE vis[n]]

----------------------------------------------------------------------------
(* The state after the module is imported: no object yet.                  *)

Init ==
    /\ heap = <<>>
    /\ pc = "build"
    /\ exc = NoExc
    /\ expr = None
    /\ var = ""
    /\ result = None
    /\ order = 0
    /\ orig = None
    /\ base = 0
    /\ stack = <<>>
    /\ marks = <<>>
    /\ visited = <<>>
    /\ calls = <<>>
    /\ ret = <<>>

callVars == <<pc, expr, var, result, order, orig, base,
              stack, marks, visited, calls, ret>>
diffVars == <<var, result, order, orig, base>>
visitVars == <<stack, marks, visited, calls, ret>>

----------------------------------------------------------------------------
(* Client code building expressions                                        *)

\* Number(value)
ConstructNumber(max, values) ==
    /\ pc = "build"
    /\ Len(heap) < max
    /\ \E value \in values :
          IF IsNumeric(value)
          THEN heap' = Append(heap, Number(value.num)) /\ exc' = NoExc
          ELSE heap' = heap /\ exc' = "ValueError"
    /\ UNCHANGED callVars

\* Symbol(value)
ConstructSymbol(max, values) ==
    /\ pc = "build"
    /\ Len(heap) < max
    /\ \E value \in values :
          IF IsStr(value)
          THEN heap' = Append(heap, Symbol(value.str)) /\ exc' = NoExc
          ELSE heap' = heap /\ exc' = "ValueError"
    /\ UNCHANGED callVars

\* Add(*operands), Sub(...), Mul(...), Div(...), Pow(...): the operands are
\* existing nodes; the constructor checks nothing
ConstructOperator(max, kinds, lens) ==
    /\ pc = "build"
    /\ Len(heap) < max
    /\ \E kind \in kinds, n \in lens :
          \E operands \in [1..n -> 1..Len(heap)] :
              heap' = Append(heap, Operator(kind, operands))
    /\ exc' = NoExc
    /\ UNCHANGED callVars

\* self + other, self - other, self * other, self / other, self ** other
\* with  other  an Expression or a raw value (wrapped in Number first)
SugarForward(max) ==
    /\ pc = "build"
    /\ Len(heap) < max
    /\ \E kind \in OperatorKinds, self \in 1..Len(heap) :
          \/ \E other \in 1..Len(heap) :
                /\ heap' = Append(heap, Operator(kind, <<self, other>>))
                /\ exc' = NoExc
          \/ \E other \in RawValues :
                IF IsNumeric(other)
                THEN /\ heap' = Append(Append(heap, Number(other.num)),
                                       Operator(kind, <<self, Len(heap) + 1>>))
                     /\ exc' = NoExc
                ELSE heap' = heap /\ exc' = "ValueError"
    /\ UNCHANGED callVars

\* other + self, ... with  other  a raw value: __radd__ and __rmul__ go
\* through self + other and self * other, the three others put the wrapped
\* value first
SugarReflected(max) ==
    /\ pc = "build"
    /\ Len(heap) < max
    /\ \E kind \in OperatorKinds, self \in 1..Len(heap), other \in RawValues :
          IF IsNumeric(other)
          THEN /\ heap' = Append(Append(heap, Number(other.num)),
                                 Operator(kind,
                                    IF kind \in {"Add", "Mul"}
                                    THEN <<self, Len(heap) + 1>>
                                    ELSE <<Len(heap) + 1, self>>))
               /\ exc' = NoExc
          ELSE heap' = heap /\ exc' = "ValueError"
    /\ UNCHANGED callVars

----------------------------------------------------------------------------
(* differentiate(expr, var=var), and differentiate applied to its result   *)

ApplyDifferentiate(e, v) ==
    LET d == differentiate(heap, e, v)
    IN  /\ expr' = e
        /\ var' = v
        /\ base' = Len(heap)
        /\ exc' = d.exc
        /\ result' = d.res
        \* what a call that raised had created is unreachable
        /\ heap' = IF d.exc = NoExc THEN d.heap ELSE heap
        /\ pc' = "called"
        /\ UNCHANGED visitVars

Differentiate ==
    /\ pc = "build"
    /\ \E e \in 1..Len(heap), v \in Names :
          /\ ApplyDifferentiate(e, v)
          /\ orig' = e
          /\ order' = 1

DifferentiateAgain ==
    /\ pc = "called"
    /\ exc = NoExc
    /\ order < MaxOrder
    /\ ApplyDifferentiate(result, var)
    /\ orig' = orig
    /\ order' = order + 1

----------------------------------------------------------------------------
(* postvisitor(expr, visitor): the call, one action per turn of the while  *)
(* loop, and the return                                                    *)

CallPostvisitor ==
    /\ pc = "build"
    /\ \E e \in 1..Len(heap) :
          /\ expr' = e
          /\ stack' = <<e>>
          /\ marks' = <<FALSE>>
    /\ visited' = <<>>
    /\ calls' = <<>>
    /\ exc' = NoExc
    /\ pc' = "loop"
    /\ UNCHANGED <<heap, ret, diffVars>>

\* e = stack.pop() finds an operand that is not in visited
LoopPush ==
    /\ pc = "loop"
    /\ stack # <<>>
    /\ LET e == stack[Len(stack)]
           rest == SubSeq(stack, 1, Len(stack) - 1)
           unvisited_children == UnvisitedChildren(heap, visited, e)
           pushed == PushBack(rest, e, unvisited_children)
       IN  /\ unvisited_children # <<>>
           /\ stack' = pushed
           /\ marks' = [i \in 1..Len(pushed) |->
                           IF i < Len(stack) THEN marks[i] ELSE i = Len(stack)]
    /\ UNCHANGED <<heap, pc, exc, expr, visited, calls, ret, diffVars>>

\* e = stack.pop() finds every operand in visited: the visitor is invoked
LoopVisit ==
    /\ pc = "loop"
    /\ stack # <<>>
    /\ LET e == stack[Len(stack)]
       IN  /\ UnvisitedChildren(heap, visited, e) = <<>>
           /\ visited' = Store(visited, e,
                               Visitor(e, OperandResults(heap, visited, e)))
           /\ calls' = Append(calls, e)
           /\ stack' = SubSeq(stack, 1, Len(stack) - 1)
           /\ marks' = SubSeq(marks, 1, Len(stack) - 1)
    /\ UNCHANGED <<heap, pc, exc, expr, ret, diffVars>>

\* the stack is empty: return visited[expr]
Return ==
    /\ pc = "loop"
    /\ stack = <<>>
    /\ ret' = visited[expr]
    /\ pc' = "done"
    /\ UNCHANGED <<heap, exc, expr, stack, marks, visited, calls, diffVars>>

----------------------------------------------------------------------------
(* Specifications                                                          *)

\* well-formed expressions, differentiated up to MaxOrder times
Next ==
    \/ ConstructNumber(MaxNodes, RawValues)
    \/ ConstructSymbol(MaxNodes, RawValues)
    \/ ConstructOperator(MaxNodes, OperatorKinds, {2})
    \/ Differentiate
    \/ DifferentiateAgain

Spec == Init /\ [][Next]_vars

\* expression DAGs, traversed by postvisitor
PVNext ==
    \/ ConstructSymbol(MaxNodesPV, {RawStr("x")})
    \/ ConstructOperator(MaxNodesPV, {"Add", "Mul"}, {2})
    \/ CallPostvisitor
    \/ LoopPush
    \/ LoopVisit
    \/ Return

PVSpec == Init /\ [][PVNext]_vars

\* postvisitor runs synchronously: once called, the loop keeps turning
PVFairSpec == PVSpec /\ WF_vars(LoopPush \/ LoopVisit \/ Return)

\* every way of making a node: constructors with any operand tuple, the
\* operator sugar, differentiate
CtorNext ==
    \/ ConstructNumber(MaxNodesCtor, RawValues)
    \/ ConstructSymbol(MaxNodesCtor, RawValues)
    \/ ConstructOperator(MaxNodesCtor, OperatorKinds, 0..MaxOperands)
    \/ SugarForward(MaxNodesCtor)
    \/ SugarReflected(MaxNodesCtor)
    \/ Differentiate

CtorSpec == Init /\ [][CtorNext]_vars

----------------------------------------------------------------------------
(* Vocabulary of the properties                                            *)

Range(seq) == {seq[i] : i \in DOMAIN seq}

\* the nodes reachable from e through operands, e included
RECURSIVE Reach(_, _)
Reach(h, e) == {e} \cup UNION {Reach(h, o) : o \in Range(h[e].operands)}

\* how many times x occurs in seq
Count(seq, x) == Cardinality({i \in DOMAIN seq : seq[i] = x})

RECURSIVE Sum(_)
Sum(seq) == IF seq = <<>> THEN 0 ELSE Head(seq) + Sum(Tail(seq))

\* how many times node n occurs in the tree unfolded from root r
RECURSIVE Occurrences(_, _, _)
Occurrences(h, r, n) ==
    (IF r = n THEN 1 ELSE 0)
    + Sum([i \in DOMAIN h[r].operands |-> Occurrences(h, h[r].operands[i], n)])

\* the arity the data model fixes for each variant
Arity(kind) == IF kind \in OperatorKinds THEN 2 ELSE 0

WellFormed(h, e) ==
    \A n \in Reach(h, e) : Len(h[n].operands) = Arity(h[n].kind)

\* a Pow node whose exponent is not a Number literal
IsVariablePow(h, n) ==
    /\ h[n].kind = "Pow"
    /\ Len(h[n].operands) = 2
    /\ h[h[n].operands[2]].kind # "Number"

\* built only from Number, Symbol, Add, Mul, Div and Pow-with-Number-exponent
InRuleTable(h, e) ==
    /\ WellFormed(h, e)
    /\ \A n \in Reach(h, e) :
          /\ h[n].kind \in {"Number", "Symbol", "Add", "Mul", "Div", "Pow"}
          /\ ~IsVariablePow(h, n)

\* a and b are the same expression, node for node
RECURSIVE SameTree(_, _, _)
SameTree(h, a, b) ==
    /\ h[a].kind = h[b].kind
    /\ h[a].value = h[b].value
    /\ h[a].name = h[b].name
    /\ Len(h[a].operands) = Len(h[b].operands)
    /\ \A i \in DOMAIN h[a].operands :
          SameTree(h, h[a].operands[i], h[b].operands[i])

IsNumberLit(h, r, v) == h[r].kind = "Number" /\ h[r].value = v

IsBinary(h, r, kind) == h[r].kind = kind /\ Len(h[r].operands) = 2

Left(h, r) == h[r].operands[1]
Right(h, r) == h[r].operands[2]

\* the rule table of the derivative, read as a relation between an
\* expression e and the tree r: r is e's derivative with respect to v
RECURSIVE IsDerivative(_, _, _, _)
IsDerivative(h, r, e, v) ==
    CASE h[e].kind = "Number" -> IsNumberLit(h, r, 0)
      [] h[e].kind = "Symbol" ->
            IsNumberLit(h, r, IF h[e].name = v THEN 1 ELSE 0)
      [] h[e].kind = "Add" ->
            /\ IsBinary(h, r, "Add")
            /\ IsDerivative(h, Left(h, r), Left(h, e), v)
            /\ IsDerivative(h, Right(h, r), Right(h, e), v)
      [] h[e].kind = "Sub" ->
            /\ IsBinary(h, r, "Sub")
            /\ IsDerivative(h, Left(h, r), Left(h, e), v)
            /\ IsDerivative(h, Right(h, r), Right(h, e), v)
      [] h[e].kind = "Mul" ->
            /\ IsBinary(h, r, "Add")
            /\ IsBinary(h, Left(h, r), "Mul")
            /\ IsDerivative(h, Left(h, Left(h, r)), Left(h, e), v)
            /\ SameTree(h, Right(h, Left(h, r)), Right(h, e))
            /\ IsBinary(h, Right(h, r), "Mul")
            /\ IsDerivative(h, Left(h, Right(h, r)), Right(h, e), v)
            /\ SameTree(h, Right(h, Right(h, r)), Left(h, e))
      [] h[e].kind = "Div" ->
            /\ IsBinary(h, r, "Div")
            /\ IsBinary(h, Left(h, r), "Sub")
            /\ LET num == Left(h, r)
               IN  /\ IsBinary(h, Left(h, num), "Mul")
                   /\ IsDerivative(h, Left(h, Left(h, num)), Left(h, e), v)
                   /\ SameTree(h, Right(h, Left(h, num)), Right(h, e))
                   /\ IsBinary(h, Right(h, num), "Mul")
                   /\ IsDerivative(h, Left(h, Right(h, num)), Right(h, e), v)
                   /\ SameTree(h, Right(h, Right(h, num)), Left(h, e))
            /\ IsBinary(h, Right(h, r), "Pow")
            /\ SameTree(h, Left(h, Right(h, r)), Right(h, e))
            /\ IsNumberLit(h, Right(h, Right(h, r)), 2)
      [] h[e].kind = "Pow" ->
            /\ IsBinary(h, r, "Mul")
            /\ IsDerivative(h, Right(h, r), Left(h, e), v)
            /\ IsBinary(h, Left(h, r), "Mul")
            /\ LET coef == Left(h, r)
               IN  /\ SameTree(h, Left(h, coef), Right(h, e))
                   /\ IsBinary(h, Right(h, coef), "Pow")
                   /\ SameTree(h, Left(h, Right(h, coef)), Left(h, e))
                   /\ IsBinary(h, Right(h, Right(h, coef)), "Sub")
                   /\ SameTree(h, Left(h, Right(h, Right(h, coef))),
                               Right(h, e))
                   /\ IsNumberLit(h, Right(h, Right(h, Right(h, coef))), 1)
      [] OTHER -> FALSE

\* fold(n) = visitor(n, fold(operand_1), ..., fold(operand_k))
RECURSIVE Fold(_, _)
Fold(h, n) ==
    Visitor(n, [i \in DOMAIN h[n].operands |-> Fold(h, h[n].operands[i])])

----------------------------------------------------------------------------
(* postvisitor                                                             *)

\* C1: when postvisitor returns, the visitor has been invoked exactly once
\* on every node reachable from the root, shared nodes included.
C1_VisitedExactlyOnce ==
    pc = "done" =>
        /\ Range(calls) = Reach(heap, expr)
        /\ \A n \in Reach(heap, expr) : Count(calls, n) = 1

\* C2: the visitor is invoked on a node only after it was invoked on, and a
\* result memoized for, every operand of the node; and an entry that was
\* pushed back on the stack is on top again only when all the operands of
\* its node are in the memo.
C2_OperandsFirst ==
    /\ \A i \in DOMAIN calls :
          \A o \in Range(heap[calls[i]].operands) :
              /\ \E j \in 1..(i - 1) : calls[j] = o
              /\ o \in DOMAIN visited
    /\ (pc = "loop" /\ stack # <<>> /\ marks[Len(stack)]) =>
          \A o \in Range(heap[stack[Len(stack)]].operands) :
              o \in DOMAIN visited

\* a pushed-back node with two different operands is on top again
C2_Witness ==
    /\ pc = "loop"
    /\ stack # <<>>
    /\ marks[Len(stack)]
    /\ Len(heap[stack[Len(stack)]].operands) = 2
    /\ Left(heap, stack[Len(stack)]) # Right(heap, stack[Len(stack)])
    /\ Len(calls) >= 2

\* C3: postvisitor returns the visitor's result for the root, which is the
\* bottom-up fold with the operands' results in left-to-right order.
C3_ReturnsFold ==
    pc = "done" => ret = visited[expr] /\ ret = Fold(heap, expr)

\* it returned for a root whose two operands are different nodes, one of
\* them an operator with a node it shares with the root or uses twice
C3_Witness ==
    /\ pc = "done"
    /\ Len(heap[expr].operands) = 2
    /\ Left(heap, expr) # Right(heap, expr)
    /\ Len(calls) > Cardinality(Reach(heap, expr))

\* C8: once inside the loop, postvisitor reaches its return with an empty
\* stack and a result for the root in the memo.
C8_Terminates ==
    (pc = "loop") ~> (pc = "done" /\ stack = <<>> /\ expr \in DOMAIN visited)

\* it returned after a traversal that met a shared node
C8_Witness ==
    /\ pc = "done"
    /\ stack = <<>>
    /\ expr \in DOMAIN visited
    /\ \E n \in Reach(heap, expr) : Count(calls, n) > 1

----------------------------------------------------------------------------
(* differentiate                                                           *)

\* C4: the derivative of Sub(f, g) is Sub(f', g').
C4_SubRule ==
    (/\ pc = "called"
     /\ IsBinary(heap, expr, "Sub")
     /\ InRuleTable(heap, Left(heap, expr))
     /\ InRuleTable(heap, Right(heap, expr))) =>
        /\ exc = NoExc
        /\ IsDerivative(heap, result, expr, var)

\* C5: on an expression built only from Number, Symbol, Add, Mul, Div and
\* Pow-with-Number-exponent nodes, differentiate returns the tree the rule
\* table gives, nothing simplified.
C5_RuleTable ==
    (pc = "called" /\ InRuleTable(heap, expr)) =>
        /\ exc = NoExc
        /\ IsDerivative(heap, result, expr, var)

\* a product of two different expressions was differentiated
C5_Witness ==
    /\ pc = "called"
    /\ InRuleTable(heap, expr)
    /\ heap[expr].kind = "Mul"
    /\ ~SameTree(heap, Left(heap, expr), Right(heap, expr))
    /\ exc = NoExc

\* C6: an expression that contains, at any depth, a Pow whose exponent is
\* not a Number literal makes differentiate raise NotImplementedError, and
\* nothing is returned.
C6_VariableExponentRaises ==
    (/\ pc = "called"
     /\ WellFormed(heap, expr)
     /\ \E n \in Reach(heap, expr) : IsVariablePow(heap, n)) =>
        /\ exc = "NotImplementedError"
        /\ result = None

\* the variable-exponent Pow lies below the root of an expression that has
\* no Sub node, so the error is the Pow rule's and crossed a rule above it
C6_Witness ==
    /\ pc = "called"
    /\ order = 1
    /\ heap[expr].kind \in {"Add", "Mul", "Div"}
    /\ \A n \in Reach(heap, expr) : heap[n].kind # "Sub"
    /\ \E n \in Reach(heap, expr) : IsVariablePow(heap, n)
    /\ exc = "NotImplementedError"
    /\ result = None

\* C9 as stated: every node of the returned tree was created by the call
\* and occurs once in it.
C9_AllNodesNew ==
    (pc = "called" /\ exc = NoExc) =>
        \A n \in Reach(heap, result) :
            n > base /\ Occurrences(heap, result, n) = 1

\* C9 amended: a successful call changes no existing node; the root it
\* returns is new; every new node of the returned tree occurs once in it;
\* every other node of the returned tree is a node of the input expression.
C9_NewRootSharedOperands ==
    [][(pc' = "called" /\ exc' = NoExc /\ order' # order) =>
          /\ \A i \in DOMAIN heap : heap'[i] = heap[i]
          /\ result' > Len(heap)
          /\ \A n \in Reach(heap', result') :
                IF n > Len(heap)
                THEN Occurrences(heap', result', n) = 1
                ELSE n \in Reach(heap, expr')]_vars

\* a sum and a product were differentiated; the product's derivative holds
\* input nodes
C9_Witness ==
    /\ pc = "called"
    /\ exc = NoExc
    /\ order = 1
    /\ heap[expr].kind = "Add"
    /\ \E n \in Reach(heap, expr) : heap[n].kind = "Mul"
    /\ \E n \in Reach(heap, result) : n <= base

\* C10 as stated: differentiate succeeds on every tree it returned.
C10_Closed ==
    (pc = "called" /\ order >= 2) => exc = NoExc

\* C10 amended: differentiate succeeds on a tree it returned exactly when
\* the expression first differentiated has no Div and no Pow node;
\* otherwise it raises NotImplementedError.
C10_ClosedWithoutDivPow ==
    (pc = "called" /\ order >= 2) =>
        /\ exc = NoExc <=>
              \A n \in Reach(heap, orig) : heap[n].kind \notin {"Div", "Pow"}
        /\ exc \in {NoExc, "NotImplementedError"}

\* the derivative of a product was differentiated again
C10_Witness ==
    /\ pc = "called"
    /\ order = 2
    /\ exc = NoExc
    /\ heap[orig].kind = "Mul"

\* C7: every node has as many operands as its variant's arity.
C7_FixedArity ==
    \A i \in DOMAIN heap : Len(heap[i].operands) = Arity(heap[i].kind)

====
